---- MODULE Spec2Model ----
(***************************************************************************)
(* Model of fmp_soma_vadis.py: the probability mass function (FMP) of the  *)
(* sum of independent discrete random variables (VADs), computed by        *)
(*   somaVADs_biv   (pairwise_sum),                                        *)
(*   somaVADs_conv  (grid_convolution_sum),                                *)
(*   somaVADs_FFT   (spectral_sum),                                        *)
(*   somaVADs_hib   (hybrid_sum).                                          *)
(*                                                                         *)
(* A distribution (a 2D array) is a sequence of rows <<value, mass>>.      *)
(* Values are counted in halves, so that the grid steps 0.5, 1 and 2 are   *)
(* the integers 1, 2 and 4 and the default delta=1 of the code is 2.       *)
(* A probability is an integer mass over the denominator of its            *)
(* distribution (its total mass); sums and products of masses are exact,   *)
(* so the model is the code in exact arithmetic, without round-off.        *)
(***************************************************************************)
EXTENDS Integers, Sequences, FiniteSets, TLC

VARIABLES
    delta,      \* the delta the caller hands to the grid-based combiners
    coll,       \* the caller's collection of <<distribution, repetitions>>
    VADs,       \* the caller's list handed to somaVADs_biv / somaVADs_conv
    arg,        \* that list as it was when the call was made
    dif_VADs,   \* somaVADs_hib's own list
    op,         \* the combiner of the current (or last) call
    pc,         \* "idle", or where the current call stands
    d,          \* delta of the current somaVADs_conv frame
    i,          \* somaVADs_hib's loop index (1-based)
    steps,      \* merge steps carried out by the current call
    folds,      \* FFT folds carried out by the current somaVADs_hib call
    out         \* per combiner, what its last finished call gave

vars == <<delta, coll, VADs, arg, dif_VADs, op, pc, d, i, steps, folds, out>>

\* delta=1, the default of somaVADs_conv, somaVADs_FFT and somaVADs_hib, in halves
DefaultDelta == 2

\* the grid steps a caller uses: 0.5, 1 and 2
Deltas == {1, 2, 4}

\* most summands (repetitions counted) of one collection
MaxTotal == 4

\* repetition counts below 1
BadReps == {-1, 0}

Ops == {"biv", "conv", "FFT", "hib"}

-----------------------------------------------------------------------------
(* Outcomes of a call *)

None == [kind |-> "none", dist |-> <<>>]
Ok(D) == [kind |-> "ok", dist |-> D]
Raise(e) == [kind |-> e, dist |-> <<>>]

-----------------------------------------------------------------------------
(* numpy *)

\* an array is held element by element, not as the rule that gives its elements
Array(f) == f \o <<>>

\* X[:,c]
Col(X, c) == Array([k \in 1..Len(X) |-> X[k][c]])

RECURSIVE SumSeq(_)
SumSeq(s) == IF Len(s) = 0 THEN 0 ELSE s[1] + SumSeq(Tail(s))

RECURSIVE ProdSeq(_)
ProdSeq(s) == IF Len(s) = 0 THEN 1 ELSE s[1] * ProdSeq(Tail(s))

\* np.arange(start, stop, step), step > 0
Arange(start, stop, step) ==
    LET n == IF stop > start THEN (stop - start + step - 1) \div step ELSE 0
    IN  Array([k \in 1..n |-> start + (k - 1) * step])

\* np.dot of two equally long vectors
Dot(a, b) == SumSeq([k \in 1..Len(a) |-> a[k] * b[k]])

\* Convolve with the second index off by one
ConvolveShifted(p, q) ==
    Array([k \in 1..(Len(p) + Len(q) - 1) |->
        SumSeq([j \in 1..Len(p) |->
            IF k - j >= 1 /\ k - j <= Len(q) THEN p[j] * q[k - j] ELSE 0])])

\* np.convolve(p, q, mode="full")
Convolve(p, q) ==
    Array([k \in 1..(Len(p) + Len(q) - 1) |->
        SumSeq([j \in 1..Len(p) |->
            IF k + 1 - j >= 1 /\ k + 1 - j <= Len(q) THEN p[j] * q[k + 1 - j] ELSE 0])])

\* the input of np.fft.fft(p, n=L): cropped or zero-padded to length L
Fit(p, L) == Array([k \in 1..L |-> IF k <= Len(p) THEN p[k] ELSE 0])

\* the inverse transform of the product of two length-L transforms:
\* the cyclic convolution of the two vectors
CycConv(a, b, L) ==
    Array([k \in 1..L |-> SumSeq([j \in 1..L |-> a[j] * b[((k - j) % L) + 1]])])

\* the inverse transform of (transform of a) ** r, r >= 0
RECURSIVE CycPow(_, _, _)
CycPow(a, r, L) ==
    IF r = 0 THEN Array([k \in 1..L |-> IF k = 1 THEN 1 ELSE 0])
    ELSE CycConv(a, CycPow(a, r - 1, L), L)

\* ArgSort without the sort
ArgSortNone(X) == X

\* X[X[:,0].argsort()]
ArgSort(X) ==
    LET n == Len(X)
        rank(k) == Cardinality({j \in 1..n :
                       X[j][1] < X[k][1] \/ (X[j][1] = X[k][1] /\ j < k)}) + 1
    IN  Array([r \in 1..n |-> X[CHOOSE k \in 1..n : rank(k) = r]])

\* np.array([S, P]).T and np.vstack([S, P]).T
Stack(S, P) == Array([k \in 1..Len(S) |-> <<S[k], P[k]>>])

-----------------------------------------------------------------------------
(* somaVADs_biv: one merge *)

\* zip(somas.ravel(), F_W.ravel()): the outer sum and the outer product, row by row
somas_F_W(X1, X2) ==
    LET m == Len(X2)
    IN  Array([k \in 1..(Len(X1) * m) |->
            LET a == ((k - 1) \div m) + 1
                b == ((k - 1) % m) + 1
            IN  <<X1[a][1] + X2[b][1], X1[a][2] * X2[b][2]>>])

\* Accumulate with = in place of +=
AccumulateOverwrite(old, prob) == prob

\* P_Z[soma] += prob
Accumulate(old, prob) == old + prob

\* the dictionary P_Z after the first k pairs, as rows in insertion order
RECURSIVE P_Z_biv(_, _)
P_Z_biv(pairs, k) ==
    IF k = 0 THEN <<>>
    ELSE LET prev == P_Z_biv(pairs, k - 1)
             soma == pairs[k][1]
             prob == pairs[k][2]
             hit == {j \in 1..Len(prev) : prev[j][1] = soma}
         IN  IF hit # {}
             THEN LET j == CHOOSE j \in hit : TRUE
                  IN  [prev EXCEPT ![j] = <<soma, Accumulate(prev[j][2], prob)>>]
             ELSE Append(prev, <<soma, prob>>)

par_Z_PZ_biv(X1, X2) ==
    LET pairs == somas_F_W(X1, X2) IN P_Z_biv(pairs, Len(pairs))

-----------------------------------------------------------------------------
(* somaVADs_conv: one merge with step dd *)

S_Z_conv(X1, X2, dd) ==
    Arange(X1[1][1] + X2[1][1], X1[Len(X1)][1] + X2[Len(X2)][1] + dd, dd)

P_Z_conv(X1, X2) == Convolve(Col(X1, 2), Col(X2, 2))

\* np.vstack raises ValueError when the two vectors differ in length
par_Z_PZ_conv(X1, X2, dd) ==
    LET S == S_Z_conv(X1, X2, dd)
        P == P_Z_conv(X1, X2)
    IN  IF Len(S) = Len(P) THEN Ok(Stack(S, P)) ELSE Raise("ValueError")

\* the delta of the frame entered by the recursive call somaVADs_conv(VADs)
RecursiveDelta(dd) == DefaultDelta

-----------------------------------------------------------------------------
(* somaVADs_FFT *)

reps(W) == Array([k \in 1..Len(W) |-> W[k][2]])
mins(W) == Array([k \in 1..Len(W) |-> W[k][1][1][1]])
maxs(W) == Array([k \in 1..Len(W) |-> W[k][1][Len(W[k][1])][1]])

S_Z_FFT(W, dl) == Arange(Dot(reps(W), mins(W)), Dot(reps(W), maxs(W)) + dl, dl)

\* np.fft.ifft(np.prod(TFs, axis=0)).real for the first k entries of W
RECURSIVE VAD_Z(_, _, _)
VAD_Z(W, k, L) ==
    IF k = 0 THEN CycPow(<<>>, 0, L)
    ELSE CycConv(VAD_Z(W, k - 1, L), CycPow(Fit(Col(W[k][1], 2), L), W[k][2], L), L)

\* np.fft.fft raises ValueError for n = 0; np.fft.ifft raises on the scalar
\* that np.prod gives for an empty list
somaVADs_FFT(W, dl) ==
    LET S == S_Z_FFT(W, dl)
    IN  IF Len(W) = 0 THEN Raise("IndexError")
        ELSE IF Len(S) = 0 THEN Raise("ValueError")
        ELSE Ok(Stack(S, VAD_Z(W, Len(W), Len(S))))

-----------------------------------------------------------------------------
(* somaVADs_hib: the fold of one repeated distribution *)

S_Z_hib(VAD, rep, dl) == Arange(rep * VAD[1][1], rep * VAD[Len(VAD)][1] + dl, dl)

FMP_final(VAD, rep, L) == CycPow(Fit(Col(VAD, 2), L), rep, L)

nova_VAD(VAD, rep, dl) ==
    LET S == S_Z_hib(VAD, rep, dl)
    IN  IF Len(S) = 0 THEN Raise("ValueError")
        ELSE Ok(Stack(S, FMP_final(VAD, rep, Len(S))))

\* the delta of the call somaVADs_conv( dif_VADs )
HibConvDelta(dl) == DefaultDelta

-----------------------------------------------------------------------------
(* The caller's inputs *)

\* the distribution with masses pmf on the grid lo, lo + dl, lo + 2 dl, ...
OnGrid(lo, pmf, dl) == Array([k \in 1..Len(pmf) |-> <<lo + (k - 1) * dl, pmf[k]>>])

\* well-formed inputs of the grid-based combiners: sorted ascending, step dl
GridCat(dl) ==
    { OnGrid(1, <<2>>, dl), OnGrid(0, <<1, 2>>, dl), OnGrid(1, <<2, 0, 1>>, dl) }

\* a fair six-sided die: the values 1..6 (in halves), each with mass 1 of 6
Die == OnGrid(2, <<1, 1, 1, 1, 1, 1>>, 2)

\* inputs with unique values in any row order, on a grid or not
AnyCat == { <<<<3, 1>>, <<0, 2>>, <<1, 1>>>>, <<<<2, 1>>, <<0, 3>>>>, <<<<0, 1>>, <<1, 2>>>> }

\* one die, two dice, and one die repeated twice
DiceColls == { <<<<Die, 1>>>>, <<<<Die, 1>>, <<Die, 1>>>>, <<<<Die, 2>>>> }

\* what one entry of a collection adds to the number of summands; an entry
\* with a count below 1 is counted as two
Weight(r) == IF r >= 1 THEN r ELSE 2

\* the collections over the catalogue C with at most MaxTotal summands
Colls(C) ==
    UNION { { W \in [1..n -> C \X (BadReps \cup 1..(MaxTotal - n + 1))] :
                SumSeq([k \in 1..n |-> Weight(W[k][2])]) <= MaxTotal }
            : n \in 0..MaxTotal }

ValidReps(W) == \A k \in 1..Len(W) : W[k][2] >= 1

\* the list of distributions, every one listed as often as it is repeated
RECURSIVE Expand(_)
Expand(W) ==
    IF Len(W) = 0 THEN <<>>
    ELSE Array([k \in 1..W[1][2] |-> W[1][1]]) \o Expand(Tail(W))

\* the orders in which the caller lists n distributions: as in the collection,
\* rotated by one, or with the first two swapped.  Every permutation is a
\* product of these two, and every order of a collection is an initial state.
Orders(n) ==
    { [k \in 1..n |-> k],
      [k \in 1..n |-> (k % n) + 1],
      [k \in 1..n |-> IF n >= 2 /\ k <= 2 THEN 3 - k ELSE k] }

PermList(L, p) == Array([k \in 1..Len(L) |-> L[p[k]]])

InitWith(dl, CC) ==
    /\ delta = dl
    /\ coll \in CC
    /\ VADs = <<>>
    /\ arg = <<>>
    /\ dif_VADs = <<>>
    /\ op = "none"
    /\ pc = "idle"
    /\ d = dl
    /\ i = 1
    /\ steps = 0
    /\ folds = 0
    /\ out = [o \in Ops |-> None]

\* grid-aligned, sorted inputs sharing the caller's delta
Init == \E dl \in Deltas : InitWith(dl, Colls(GridCat(dl)))

\* inputs in any row order, with a delta of 0.5 or 1
InitAny == \E dl \in {1, DefaultDelta} : InitWith(dl, Colls(AnyCat) \cup DiceColls)

-----------------------------------------------------------------------------
(* The calls, step by step *)

Return(o) ==
    /\ out' = [out EXCEPT ![op] = o]
    /\ pc' = "idle"

\* the worklist after X1, X2 = VADs.pop(), VADs.pop()
Popped(W) == SubSeq(W, 1, Len(W) - 2)

\* the worklist after VADs.append(par_Z_PZ)
Pushed(W, par_Z_PZ) == Append(W, par_Z_PZ)

\* a call starts with the locals of somaVADs_hib fresh
NoHib ==
    /\ dif_VADs' = <<>>
    /\ i' = 1
    /\ folds' = 0

\* the caller holds no list while it calls somaVADs_FFT or somaVADs_hib
NoList ==
    /\ VADs' = <<>>
    /\ arg' = <<>>

\* the caller calls somaVADs_biv on a list of the collection's distributions
CallBiv(p) ==
    /\ pc = "idle"
    /\ ValidReps(coll)
    /\ VADs' = PermList(Expand(coll), p)
    /\ arg' = VADs'
    /\ op' = "biv"
    /\ pc' = "biv"
    /\ steps' = 0
    /\ NoHib
    /\ d' = delta
    /\ UNCHANGED <<delta, coll, out>>

\* len(VADs) == 1
BivReturn ==
    /\ pc = "biv"
    /\ Len(VADs) = 1
    /\ Return(Ok(ArgSort(VADs[1])))
    /\ UNCHANGED <<delta, coll, VADs, arg, dif_VADs, op, d, i, steps, folds>>

\* the else branch, two distributions or more
BivMerge ==
    /\ pc = "biv"
    /\ Len(VADs) >= 2
    /\ LET X1 == VADs[Len(VADs)]
           X2 == VADs[Len(VADs) - 1]
       IN  VADs' = Pushed(Popped(VADs), par_Z_PZ_biv(X1, X2))
    /\ steps' = steps + 1
    /\ UNCHANGED <<delta, coll, arg, dif_VADs, op, pc, d, i, folds, out>>

\* the else branch on an empty list: VADs.pop() raises IndexError
BivEmpty ==
    /\ pc = "biv"
    /\ Len(VADs) = 0
    /\ Return(Raise("IndexError"))
    /\ UNCHANGED <<delta, coll, VADs, arg, dif_VADs, op, d, i, steps, folds>>

\* the caller calls somaVADs_conv on a list of the collection's distributions
CallConv(p) ==
    /\ pc = "idle"
    /\ ValidReps(coll)
    /\ VADs' = PermList(Expand(coll), p)
    /\ arg' = VADs'
    /\ op' = "conv"
    /\ pc' = "conv"
    /\ d' = delta
    /\ steps' = 0
    /\ NoHib
    /\ UNCHANGED <<delta, coll, out>>

\* the list somaVADs_conv works on: the caller's, or somaVADs_hib's own
Worklist == IF op = "hib" THEN dif_VADs ELSE VADs

\* SetWorklist when somaVADs_hib hands over the caller's list
SetWorklistCaller(W) == VADs' = W /\ UNCHANGED dif_VADs

SetWorklist(W) ==
    IF op = "hib" THEN dif_VADs' = W /\ UNCHANGED VADs
    ELSE VADs' = W /\ UNCHANGED dif_VADs

\* len(VADs) == 1
ConvReturn ==
    /\ pc = "conv"
    /\ Len(Worklist) = 1
    /\ Return(Ok(Worklist[1]))
    /\ UNCHANGED <<delta, coll, VADs, arg, dif_VADs, op, d, i, steps, folds>>

\* the else branch, two distributions or more; np.vstack may raise
ConvMerge ==
    /\ pc = "conv"
    /\ Len(Worklist) >= 2
    /\ LET X1 == Worklist[Len(Worklist)]
           X2 == Worklist[Len(Worklist) - 1]
           par_Z_PZ == par_Z_PZ_conv(X1, X2, d)
       IN  IF par_Z_PZ.kind = "ok"
           THEN /\ SetWorklist(Pushed(Popped(Worklist), par_Z_PZ.dist))
                /\ steps' = steps + 1
                /\ d' = RecursiveDelta(d)
                /\ UNCHANGED <<pc, out>>
           ELSE /\ SetWorklist(Popped(Worklist))
                /\ Return(par_Z_PZ)
                /\ UNCHANGED <<steps, d>>
    /\ UNCHANGED <<delta, coll, arg, op, i, folds>>

\* the else branch on an empty list: VADs.pop() raises IndexError
ConvEmpty ==
    /\ pc = "conv"
    /\ Len(Worklist) = 0
    /\ Return(Raise("IndexError"))
    /\ UNCHANGED <<delta, coll, VADs, arg, dif_VADs, op, d, i, steps, folds>>

\* the caller calls somaVADs_FFT on the collection; a negative power of a
\* transform is no convolution of masses and is left out
CallFFT ==
    /\ pc = "idle"
    /\ \A k \in 1..Len(coll) : coll[k][2] >= 0
    /\ op' = "FFT"
    /\ out' = [out EXCEPT !["FFT"] = somaVADs_FFT(coll, delta)]
    /\ NoList
    /\ NoHib
    /\ d' = delta
    /\ steps' = 0
    /\ UNCHANGED <<delta, coll, pc>>

\* the caller calls somaVADs_hib on the collection
CallHib ==
    /\ pc = "idle"
    /\ op' = "hib"
    /\ pc' = "hib"
    /\ NoList
    /\ NoHib
    /\ d' = delta
    /\ steps' = 0
    /\ UNCHANGED <<delta, coll, out>>

\* rep == 1
HibPass ==
    /\ pc = "hib"
    /\ i <= Len(coll)
    /\ coll[i][2] = 1
    /\ dif_VADs' = Append(dif_VADs, coll[i][1])
    /\ i' = i + 1
    /\ UNCHANGED <<delta, coll, VADs, arg, op, pc, d, steps, folds, out>>

\* rep > 1; np.fft.fft may raise
HibFold ==
    /\ pc = "hib"
    /\ i <= Len(coll)
    /\ coll[i][2] > 1
    /\ LET nova == nova_VAD(coll[i][1], coll[i][2], delta)
       IN  IF nova.kind = "ok"
           THEN /\ dif_VADs' = Append(dif_VADs, nova.dist)
                /\ i' = i + 1
                /\ folds' = folds + 1
                /\ UNCHANGED <<pc, out>>
           ELSE /\ Return(nova)
                /\ UNCHANGED <<dif_VADs, i, folds>>
    /\ UNCHANGED <<delta, coll, VADs, arg, op, d, steps>>

\* the else branch: raise ValueError, the repetitions must be 1 or more
HibRaise ==
    /\ pc = "hib"
    /\ i <= Len(coll)
    /\ coll[i][2] < 1
    /\ Return(Raise("DomainError"))
    /\ UNCHANGED <<delta, coll, VADs, arg, dif_VADs, op, d, i, steps, folds>>

\* return somaVADs_conv( dif_VADs )
HibConv ==
    /\ pc = "hib"
    /\ i > Len(coll)
    /\ pc' = "conv"
    /\ d' = HibConvDelta(delta)
    /\ UNCHANGED <<delta, coll, VADs, arg, dif_VADs, op, i, steps, folds, out>>

Next ==
    \/ \E p \in Orders(Len(Expand(coll))) : CallBiv(p)
    \/ BivReturn
    \/ BivMerge
    \/ BivEmpty
    \/ \E p \in Orders(Len(Expand(coll))) : CallConv(p)
    \/ ConvReturn
    \/ ConvMerge
    \/ ConvEmpty
    \/ CallFFT
    \/ CallHib
    \/ HibPass
    \/ HibFold
    \/ HibRaise
    \/ HibConv

Spec == Init /\ [][Next]_vars

SpecAny == InitAny /\ [][Next]_vars

-----------------------------------------------------------------------------
(* What the claims speak of *)

Sorted(X) == \A k \in 1..(Len(X) - 1) : X[k][1] < X[k + 1][1]

\* sorted ascending with uniform step dl
OnStep(X, dl) == \A k \in 1..(Len(X) - 1) : X[k + 1][1] - X[k][1] = dl

\* the same rows, in whatever order
SameRows(A, B) ==
    /\ Len(A) = Len(B)
    /\ {A[k] : k \in 1..Len(A)} = {B[k] : k \in 1..Len(B)}

Mass(X) == SumSeq(Col(X, 2))

RECURSIVE Power(_, _)
Power(m, r) == IF r <= 0 THEN 1 ELSE m * Power(m, r - 1)

\* the product of the total masses of the distributions of a list
ListMass(L) == ProdSeq([k \in 1..Len(L) |-> Mass(L[k])])

\* the same for a collection, each mass raised to its repetition count
CollMass(W) == ProdSeq([k \in 1..Len(W) |-> Power(Mass(W[k][1]), W[k][2])])

\* the sums of one value of each of the first k distributions of L
RECURSIVE SumsOf(_, _)
SumsOf(L, k) ==
    IF k = 0 THEN {0}
    ELSE {s + L[k][r][1] : s \in SumsOf(L, k - 1), r \in 1..Len(L[k])}

\* the mass of all the combinations of one row of each of the first k
\* distributions of L whose values add up to z: the sum of the products of
\* their masses
RECURSIVE MassAt(_, _, _)
MassAt(L, k, z) ==
    IF k = 0 THEN (IF z = 0 THEN 1 ELSE 0)
    ELSE SumSeq(Array([r \in 1..Len(L[k]) |->
             L[k][r][2] * MassAt(L, k - 1, z - L[k][r][1])]))

\* the PMF of the sum of the distributions of L, by its definition: one row
\* per achievable sum z, ascending, with the mass of all the combinations of
\* rows that add up to z
SumPMF(L) ==
    LET Z == SumsOf(L, Len(L))
        nth(r) == CHOOSE z \in Z : Cardinality({y \in Z : y < z}) = r - 1
    IN  Array([r \in 1..Cardinality(Z) |-> <<nth(r), MassAt(L, Len(L), nth(r))>>])

\* the call that has just finished
Finished(o) == pc = "idle" /\ op = o

\* values 2..12 (in halves) with masses 1,2,3,4,5,6,5,4,3,2,1 of 36
TwoDice ==
    Array([k \in 1..11 |-> <<2 * (k + 1), IF k <= 6 THEN k ELSE 12 - k>>])

\* C3: somaVADs_biv on N >= 2 distributions with unique values returns the PMF
\* of the sum: one row per achievable sum, ascending, with the mass of all the
\* combinations of rows adding up to it; for two fair dice the values 2..12
\* with masses 1,2,3,4,5,6,5,4,3,2,1 of 36.
C3_PairwiseIsSumPMF ==
    (Finished("biv") /\ Len(arg) >= 2) =>
        /\ out["biv"] = Ok(SumPMF(arg))
        /\ (arg = <<Die, Die>> => out["biv"].dist = TwoDice)

C3_Witness ==
    /\ Finished("biv")
    /\ arg = <<Die, Die>>
    /\ out["biv"].kind = "ok"
    /\ Len(out["biv"].dist) = 11

-----------------------------------------------------------------------------

\* the value axis from the sum of the minima to the sum of the maxima of the
\* sorted distributions of L, stepped by dl
Axis(L, dl) ==
    LET lo == SumSeq([k \in 1..Len(L) |-> L[k][1][1]])
        hi == SumSeq([k \in 1..Len(L) |-> L[k][Len(L[k])][1]])
    IN  Array([k \in 1..(((hi - lo) \div dl) + 1) |-> lo + (k - 1) * dl])

\* C1: for any shared delta, somaVADs_conv on N >= 1 sorted distributions of
\* step delta returns the axis from the sum of the minima to the sum of the
\* maxima stepped by delta, and every merge step of the reduction uses the
\* caller's delta.
C1_GridAxis ==
    /\ (op = "conv" /\ pc = "conv" /\ Len(VADs) >= 2) => d = delta
    /\ (Finished("conv") /\ Len(arg) >= 1) =>
           /\ out["conv"].kind = "ok"
           /\ Col(out["conv"].dist, 1) = Axis(arg, delta)

\* every distribution of the collection is summed once
AllOnce == Len(coll) >= 1 /\ \A k \in 1..Len(coll) : coll[k][2] = 1

\* all the combiners called so far returned one and the same distribution
AllAgree ==
    \A a, b \in Ops :
        (out[a].kind # "none" /\ out[b].kind # "none") =>
            (out[a].kind = "ok" /\ out[a] = out[b])

\* C2: on the same well-formed, grid-aligned distributions (every repetition
\* count 1, any shared delta) the four combiners return the same distribution.
C2_SameSum == AllOnce => AllAgree

HasBadRep == \E k \in 1..Len(coll) : coll[k][2] < 1

\* C4: somaVADs_hib on a collection with a repetition count below 1 fails with
\* the domain error, and has carried out no FFT fold and no merge before.
C4_FailsFast ==
    (Finished("hib") /\ HasBadRep) =>
        /\ out["hib"].kind = "DomainError"
        /\ folds = 0
        /\ steps = 0

\* one distribution, summed once
Single == Len(coll) = 1 /\ coll[1][2] = 1

\* the call returned X with its rows sorted ascending, every mass unchanged
Returned(o, X) == o.kind = "ok" /\ Sorted(o.dist) /\ SameRows(o.dist, X)

\* the values of X are a grid of step dl, in whatever order the rows are listed
GridValues(X, dl) ==
    LET V == {X[k][1] : k \in 1..Len(X)}
    IN  /\ Cardinality(V) = Len(X)
        /\ \A v \in V : v + dl \in V \/ \A w \in V : w <= v

\* C5 as claimed: every combiner returns a single distribution sorted
\* ascending, every probability unchanged, in whatever order its rows are
\* listed (for the grid-based combiners: the rows of a grid of step delta).
C5_AnyRowOrder ==
    (pc = "idle" /\ op \in Ops /\ Single
        /\ (op = "biv" \/ GridValues(coll[1][1], delta))) =>
        Returned(out[op], coll[1][1])

\* C5, amended: somaVADs_biv returns a single distribution sorted ascending,
\* every probability unchanged, in whatever order its rows are listed;
\* somaVADs_conv and somaVADs_hib return its rows as they are listed, sorted
\* when they are listed ascending; somaVADs_FFT returns it when its rows are
\* listed ascending with uniform step delta.
C5_SingleReturned ==
    (pc = "idle" /\ op \in Ops /\ Single) =>
        LET X == coll[1][1]
        IN  /\ op = "biv" => Returned(out[op], X)
            /\ op \in {"conv", "hib"} => out[op] = Ok(X)
            /\ (op \in {"conv", "hib"} /\ Sorted(X)) => Returned(out[op], X)
            /\ (op = "FFT" /\ OnStep(X, delta)) => Returned(out[op], X)

C5_Witness ==
    /\ Finished("biv")
    /\ Single
    /\ ~Sorted(coll[1][1])
    /\ Returned(out["biv"], coll[1][1])

\* one distribution, repeated
OneRepeated == Len(coll) = 1 /\ coll[1][2] >= 1

\* C6: one grid-aligned distribution with repetition count r via somaVADs_FFT
\* or somaVADs_hib gives the same distribution as r listed copies of it via
\* somaVADs_biv or somaVADs_conv, and the transform length is r*(n-1)+1.
C6_RepetitionSame ==
    OneRepeated =>
        /\ AllAgree
        /\ out["FFT"].kind # "none" =>
               Len(out["FFT"].dist) = coll[1][2] * (Len(coll[1][1]) - 1) + 1

\* C7: the total mass of what a combiner returns is the product of the total
\* masses of the inputs, each raised to its repetition count (1 when every
\* input sums to 1), and so is the mass of the worklist after every merge step.
C7_MassPreserved ==
    /\ (op \in {"biv", "conv"} /\ pc \in {"biv", "conv"}) =>
           ListMass(VADs) = CollMass(coll)
    /\ (op = "hib" /\ pc = "conv") => ListMass(dif_VADs) = CollMass(coll)
    /\ (pc = "idle" /\ op \in Ops /\ out[op].kind = "ok") =>
           Mass(out[op].dist) = CollMass(coll)

C7_Witness ==
    /\ Finished("hib")
    /\ out["hib"].kind = "ok"
    /\ folds >= 1
    /\ steps >= 1
    /\ Len(out["hib"].dist) >= 3
    /\ CollMass(coll) > 1

\* C8: somaVADs_biv gives the same for every order of the list, and so does
\* somaVADs_conv: a later call on another order of the same distributions
\* ends as the earlier call did.
C8_OrderIndependent ==
    [][\A o \in {"biv", "conv"} : out[o].kind # "none" => out'[o] = out[o]]_vars

\* C9: every merge step takes two distributions off the worklist and puts one
\* back; a call on N >= 1 well-formed distributions returns after exactly N-1
\* merge steps with one distribution left; a call on an empty list ends in an
\* error.
C9_Terminates ==
    /\ (op \in {"biv", "conv"} /\ pc \in {"biv", "conv"}) =>
           Len(VADs) = Len(arg) - steps
    /\ (pc = "idle" /\ op \in {"biv", "conv"}) =>
           IF Len(arg) = 0 THEN out[op].kind = "IndexError"
           ELSE /\ out[op].kind = "ok"
                /\ steps = Len(arg) - 1
                /\ Len(VADs) = 1

\* C10: no step changes the caller's collection or the distributions still on
\* the caller's list; somaVADs_FFT and somaVADs_hib leave the caller's list
\* alone; after a successful somaVADs_biv or somaVADs_conv the caller's list
\* is unchanged for N = 1 and holds the merged sum alone for N >= 2.
C10_Frame ==
    [][/\ coll' = coll
       /\ (op \in {"FFT", "hib"} /\ op' = op) => VADs' = VADs
       /\ (op' \in {"biv", "conv"} /\ pc' # "idle") =>
              \A k \in 1..(Len(VADs') - 1) : VADs'[k] = arg'[k]
       /\ (pc # "idle" /\ pc' = "idle" /\ op \in {"biv", "conv"}
              /\ out'[op].kind = "ok") =>
              IF Len(arg) = 1 THEN VADs' = arg
              ELSE Len(VADs') = 1 /\ SameRows(VADs'[1], out'[op].dist)
      ]_vars

C10_Witness ==
    /\ Finished("conv")
    /\ Len(arg) >= 2
    /\ out["conv"].kind = "ok"
    /\ VADs = <<out["conv"].dist>>

====
